---- MODULE Spec2Model ----
(***************************************************************************)
(* Model of src/src/main.rs: the pipeline                                  *)
(*     main -> process_scores -> remove_duplicates -> export_tops          *)
(* that turns a score store and a beatmap listing into a ranked report.    *)
(*                                                                         *)
(* Representation.                                                         *)
(*  - Option<T> is a sequence of length 0 (None) or 1 (Some).              *)
(*  - A hash string is a natural number; the literal string "unknown" is   *)
(*    the number Unknown.                                                  *)
(*  - Performance values and star ratings are f64 in the code.  Here they  *)
(*    are integers counting hundredths (150.0 is 15000), and a product     *)
(*    with a power of 0.95 or 0.995 is truncated to that unit.  NaN is     *)
(*    not a value of the model: the evaluator is an external library and   *)
(*    is taken to return numbers.                                          *)
(*  - The judgement counts and combo of a replay (the evaluator's inputs)  *)
(*    are one field, counts, identified with the performance value the     *)
(*    external evaluator returns for them; the content file of a beatmap   *)
(*    is identified with the star rating its content has, 0 standing for   *)
(*    a file that cannot be read.                                          *)
(*  - A modifier bitset (u32) is the set of its set bit positions.         *)
(*  - The display metadata of a beatmap (artist, title, difficulty name)   *)
(*    is one optional field, title; the text "Unknown ..." printed for a   *)
(*    missing one is the number UnknownTitle.                              *)
(*  - result is what main returns: "running" until it returns, then "Ok"   *)
(*    or the io::Error it propagates, named after the call that failed.    *)
(*  - score_list is the concatenation of the store's per-beatmap groups,   *)
(*    in iteration order; the nested loop of process_scores visits the     *)
(*    records in exactly that order and its counters are only printed.     *)
(***************************************************************************)
EXTENDS Integers, Sequences, FiniteSets, TLC

VARIABLES pc, result, score_list, listing, scores_with_pp, unique_scores, files

vars == <<pc, result, score_list, listing, scores_with_pp, unique_scores, files>>

None == <<>>
Some(x) == <<x>>

(***************************************************************************)
(* Program constants.                                                      *)
(***************************************************************************)
Unknown == 0
OutlierCeiling == 200000
WeightNum == 95
WeightDen == 100
BonusNum == 995
BonusDen == 1000
BonusBase == 417
BonusCap == 1000
StarsLow == 900
StarsHigh == 1000
TopCount == 100
MaxModBit == 30
UnknownTitle == 0

(***************************************************************************)
(* Bounds of the model.                                                    *)
(***************************************************************************)
MaxScores == 2
MaxListing == 2
MaxDedup == 3
MaxUnique == 3
ManyScores == 101

(***************************************************************************)
(* Fixed-point units: a power of 0.95 is kept to four decimals, a power of *)
(* 0.995 to four decimals.                                                 *)
(***************************************************************************)
WeightUnit == WeightDen * WeightDen
BonusUnit == 10 * BonusDen

Min(S) == CHOOSE x \in S : \A y \in S : x <= y

RECURSIVE Concat(_)
Concat(ss) == IF ss = <<>> THEN <<>> ELSE Head(ss) \o Concat(Tail(ss))

(***************************************************************************)
(* process_scores                                                          *)
(***************************************************************************)
\* Faulty variant of Find: the first entry of the listing, whatever its hash.
FindAny(beatmaps, hash) ==
    IF beatmaps = << >> THEN None ELSE Some(beatmaps[1])

\* Faulty variant of Find: the last entry with the hash instead of the first.
FindLast(beatmaps, hash) ==
    LET idx == {i \in DOMAIN beatmaps : beatmaps[i].hash = hash}
    IN  IF idx = {} THEN None
        ELSE Some(beatmaps[CHOOSE i \in idx : \A j \in idx : j <= i])

\* listing.beatmaps.iter().find(|b| b.hash == score.beatmap_hash)
Find(beatmaps, hash) ==
    LET idx == {i \in DOMAIN beatmaps : beatmaps[i].hash = hash}
    IN  IF idx = {} THEN None ELSE Some(beatmaps[Min(idx)])

\* Beatmap::from_path(&path): Err for a file that cannot be read
FromPath(file) == IF file = 0 THEN None ELSE Some(file)

\* map.pp().mods(..).combo(..)...calculate()
Calculate(map, score) == [pp |-> score.counts, stars |-> map]

\* Faulty variant of ProcessScore: the outlier guard written with > instead of >=.
ProcessScoreGt(score, beatmaps) ==
    LET idx == {i \in DOMAIN beatmaps : beatmaps[i].hash = score.beatmap_hash}
    IN  IF idx = {} THEN <<>>
        ELSE LET beatmap == beatmaps[CHOOSE i \in idx : \A j \in idx : i <= j]
             IN  IF beatmap.status = "Ranked" \/ beatmap.file = 0 THEN <<>>
                 ELSE IF score.counts > OutlierCeiling THEN <<>>
                 ELSE << [score |-> score,
                          map |-> beatmap,
                          attributes |-> [pp |-> score.counts,
                                          stars |-> beatmap.file]] >>

\* one iteration of the inner loop: the entries it pushes
ProcessScore(score, beatmaps) ==
    LET found == Find(beatmaps, score.beatmap_hash)
    IN  IF found = None THEN <<>>
        ELSE LET beatmap == found[1]
             IN  IF beatmap.status = "Ranked" THEN <<>>
                 ELSE LET map == FromPath(beatmap.file)
                      IN  IF map = None THEN <<>>
                          ELSE LET attributes == Calculate(map[1], score)
                               IN  IF attributes.pp >= OutlierCeiling THEN <<>>
                                   ELSE << [score |-> score,
                                            map |-> beatmap,
                                            attributes |-> attributes] >>

process_scores(scores, beatmaps) ==
    Concat([i \in DOMAIN scores |-> ProcessScore(scores[i], beatmaps)])

(***************************************************************************)
(* remove_duplicates                                                       *)
(***************************************************************************)
\* score_pp.score.beatmap_hash.clone().unwrap_or_else(|| "unknown".to_string())
KeyOf(score_pp) ==
    IF score_pp.score.beatmap_hash = None THEN Unknown
    ELSE score_pp.score.beatmap_hash[1]

\* Faulty variant of Upsert: and_modify never replaces (the first entry of a group stays).
UpsertFirst(scores_by_hash, score_pp) ==
    LET hash == IF score_pp.score.beatmap_hash = None THEN Unknown
                ELSE score_pp.score.beatmap_hash[1]
    IN  IF hash \in DOMAIN scores_by_hash
        THEN scores_by_hash
        ELSE (hash :> score_pp) @@ scores_by_hash

\* Faulty variant of Upsert: and_modify always replaces (the last entry of a group stays).
UpsertLast(scores_by_hash, score_pp) ==
    LET hash == IF score_pp.score.beatmap_hash = None THEN Unknown
                ELSE score_pp.score.beatmap_hash[1]
    IN  IF hash \in DOMAIN scores_by_hash
        THEN [scores_by_hash EXCEPT ![hash] = score_pp]
        ELSE (hash :> score_pp) @@ scores_by_hash

\* .entry(hash).and_modify(|e| if new > e { *e = new }).or_insert(new)
Upsert(scores_by_hash, score_pp) ==
    LET hash == KeyOf(score_pp)
    IN  IF hash \in DOMAIN scores_by_hash
        THEN IF score_pp.attributes.pp > scores_by_hash[hash].attributes.pp
             THEN [scores_by_hash EXCEPT ![hash] = score_pp]
             ELSE scores_by_hash
        ELSE (hash :> score_pp) @@ scores_by_hash

RECURSIVE ScoresByHash(_, _)
\* the HashMap after the first n entries of the input
ScoresByHash(input, n) ==
    IF n = 0 THEN << >>
    ELSE Upsert(ScoresByHash(input, n - 1), input[n])

\* scores_by_hash.into_values(): the values in any order
IntoValues(scores_by_hash) ==
    LET keys == DOMAIN scores_by_hash
        n == Cardinality(keys)
    IN  { [i \in 1..n |-> scores_by_hash[order[i]]] :
            order \in {o \in [1..n -> keys] : \A i, j \in 1..n : i # j => o[i] # o[j]} }

remove_duplicates(input) == IntoValues(ScoresByHash(input, Len(input)))

(***************************************************************************)
(* export_tops                                                             *)
(***************************************************************************)
\* the comparator of sort_by: b.pp.partial_cmp(&a.pp) is Less, so a goes first
ComesFirst(a, b) == a.attributes.pp > b.attributes.pp

\* slice::sort_by is a stable sort: the entry at index i ends up behind the
\* entries the comparator puts first and behind the earlier entries it ties with
SortByPp(scores) ==
    LET n == Len(scores)
        ahead == [i \in 1..n |->
                    Cardinality({j \in 1..n :
                        \/ ComesFirst(scores[j], scores[i])
                        \/ /\ ~ComesFirst(scores[i], scores[j])
                           /\ j < i})]
    IN  [k \in 1..n |-> scores[CHOOSE i \in 1..n : ahead[i] = k - 1]]

RECURSIVE Powi(_)
\* 0.95f64.powi(i), in WeightUnit-ths, by squaring and multiplying
Powi(i) ==
    IF i = 0 THEN WeightUnit
    ELSE IF i % 2 = 1 THEN (Powi(i - 1) * WeightNum) \div WeightDen
    ELSE LET half == Powi(i \div 2) IN (half * half) \div WeightUnit

\* score_pp.attributes.pp() * 0.95f64.powi(i as i32), i the 0-based index
Weighted(pp, i) == (pp * Powi(i)) \div WeightUnit

RECURSIVE SumWeighted(_, _)
\* .iter().enumerate().map(..).sum() over the first n entries
SumWeighted(scores, n) ==
    IF n = 0 THEN 0
    ELSE SumWeighted(scores, n - 1) + Weighted(scores[n].attributes.pp, n - 1)

\* Faulty variant of TotalPp: the sum runs over the listed top slice only.
TotalPpTop(scores) ==
    SumWeighted(scores, IF Len(scores) < TopCount THEN Len(scores) ELSE TopCount)

TotalPp(scores) == SumWeighted(scores, Len(scores))

RECURSIVE Powf(_)
\* 0.995f64.powf(n), in BonusUnit-ths, by squaring and multiplying
Powf(n) ==
    IF n = 0 THEN BonusUnit
    ELSE IF n % 2 = 1 THEN (Powf(n - 1) * BonusNum) \div BonusDen
    ELSE LET half == Powf(n \div 2) IN (half * half) \div BonusUnit

\* (417.0 - 1.0 / 3.0) * (1.0 - 0.995f64.powf(min(1000, len) as f64))
BonusPp(len) ==
    LET n == IF len < BonusCap THEN len ELSE BonusCap
    IN  ((BonusBase * 3 - 1) * 100 * (BonusUnit - Powf(n))) \div (3 * BonusUnit)

\* Faulty variant of IsNineStarPfc: the upper bound of the rating is inclusive.
IsNineStarPfcInclusive(score) ==
    /\ score.attributes.stars >= StarsLow
    /\ score.attributes.stars <= StarsHigh
    /\ score.score.perfect_combo

\* the filter of the "9* PFCs" count
IsNineStarPfc(score) ==
    /\ score.attributes.stars >= StarsLow
    /\ score.attributes.stars < StarsHigh
    /\ score.score.perfect_combo

CountPfc(scores) == Cardinality({i \in DOMAIN scores : IsNineStarPfc(scores[i])})

\* Mods::from_bits(bits).unwrap_or(Mods::NoMod), then "NoMod" if empty, else {:?}
ModDisplay(bits) ==
    IF bits = {} \/ ~(bits \subseteq 0..MaxModBit)
    THEN [label |-> "NoMod", flags |-> {}]
    ELSE [label |-> "Mods", flags |-> bits]

\* score_pp.map.title_ascii.as_ref().unwrap_or(&"Unknown Title".to_string())
TitleDisplay(title) == IF title = None THEN UnknownTitle ELSE title[1]

\* Faulty variant of Take: no cut at 100.
TakeAll(scores) == scores

\* unique_scores.iter().take(100)
Take(scores) ==
    SubSeq(scores, 1, IF Len(scores) < TopCount THEN Len(scores) ELSE TopCount)

\* the two lines written for the entry at 0-based index i of the top slice
EntryLines(score_pp, i) ==
    << [kind |-> "entry", rank |-> i + 1, title |-> TitleDisplay(score_pp.map.title)],
       [kind |-> "pp", pp |-> score_pp.attributes.pp,
        mods |-> ModDisplay(score_pp.score.mods)] >>

\* every line export_tops writes, in order, given the sorted slice
ReportLines(sorted) ==
    LET total_pp == TotalPp(sorted)
        bonus_pp == BonusPp(Len(sorted))
        count == CountPfc(sorted)
        top == Take(sorted)
    IN  << [kind |-> "Total pp", value |-> total_pp + bonus_pp],
           [kind |-> "Total pp (without bonus pp)", value |-> total_pp],
           [kind |-> "Bonus pp", value |-> bonus_pp],
           [kind |-> "9* PFCs", value |-> count] >>
        \o Concat([i \in DOMAIN top |-> EntryLines(top[i], i - 1)])

(***************************************************************************)
(* Inputs.                                                                 *)
(***************************************************************************)
SeqsUpTo(S, n) == UNION {[1..k -> S] : k \in 0..n}

\* display metadata (artist, title, difficulty name) goes with the content hash
Entry(hash, status, file) ==
    [hash |-> hash, status |-> status, file |-> file, title |-> hash]

\* the entry process_scores emits for a replay on a listed, readable beatmap
Scored(hash, pp, stars, fc, mods) ==
    [score |-> [beatmap_hash |-> hash, mods |-> mods, counts |-> pp,
                perfect_combo |-> fc],
     map |-> Entry(hash, "Pending", stars),
     attributes |-> [pp |-> pp, stars |-> stars]]

\* the records and entries of the small stores the pipeline is run on
HashesIn == {None, Some(1)}
PpIn == {15000, OutlierCeiling - 1, OutlierCeiling}
Replays == [beatmap_hash : HashesIn, mods : {{}}, counts : PpIn, perfect_combo : {TRUE}]
Beatmaps ==
    {Entry(h, "Ranked", StarsLow) : h \in HashesIn}
    \cup {Entry(h, "Pending", f) : h \in HashesIn, f \in {0, StarsLow}}
    \cup {Entry(h, "Loved", StarsLow) : h \in HashesIn}

ScoreLists == SeqsUpTo(Replays, MaxScores)
Listings == SeqsUpTo(Beatmaps, MaxListing)

\* inputs of remove_duplicates: entries on a hash-less beatmap, on a beatmap
\* whose hash is the string "unknown", and on another one
DedupEntries ==
    {Scored(h, pp, StarsLow, fc, {}) :
        h \in {None, Some(Unknown), Some(1)}, pp \in {15000, 22000}, fc \in BOOLEAN}
DedupInputs == SeqsUpTo(DedupEntries, MaxDedup)

\* inputs of export_tops: unique entries, the one at position i on beatmap i
Profiles == {<<StarsLow - 1, TRUE>>, <<StarsLow, TRUE>>, <<StarsLow, FALSE>>,
             <<StarsHigh, TRUE>>}
Choices == {10000, 20000, 30000} \X Profiles
SmallUnique(c) ==
    [i \in DOMAIN c |-> Scored(Some(i), c[i][1], c[i][2][1], c[i][2][2], {})]

\* long inputs: n entries whose values, ratings, flags and modifiers cycle
\* with different periods, shifted by p; some bitsets have a bit that is no
\* flag of Mods
Patterned(n, p) ==
    [i \in 1..n |->
        Scored(Some(i),
               10000 * (1 + ((i * p) % 7)),
               StarsLow - 50 + 50 * ((i + p) % 4),
               i % 3 # 1,
               IF i % 3 = 0 THEN {}
               ELSE IF i % 11 = 0 THEN {i % 3, MaxModBit + 1}
               ELSE {i % 3, 3 + (i % 5)})]
ManyUnique == {Patterned(n, p) : n \in {TopCount, ManyScores}, p \in 1..3}

(***************************************************************************)
(* main                                                                    *)
(***************************************************************************)
Init ==
    /\ pc = "read_scores"
    /\ result = "running"
    /\ score_list = << >>
    /\ listing = << >>
    /\ scores_with_pp = << >>
    /\ unique_scores = << >>
    /\ files = << >>

\* ScoreList::from_file("scores.db") returns Ok
ReadScoresOk ==
    /\ pc = "read_scores"
    /\ \E sl \in ScoreLists : score_list' = sl
    /\ pc' = "read_listing"
    /\ UNCHANGED <<result, listing, scores_with_pp, unique_scores, files>>

\* ScoreList::from_file("scores.db") returns Err: main returns it
ReadScoresErr ==
    /\ pc = "read_scores"
    /\ pc' = "exit"
    /\ result' = "Err(scores.db)"
    /\ UNCHANGED <<score_list, listing, scores_with_pp, unique_scores, files>>

\* Listing::from_file("osu!.db") returns Ok
ReadListingOk ==
    /\ pc = "read_listing"
    /\ \E ls \in Listings : listing' = ls
    /\ pc' = "process"
    /\ UNCHANGED <<result, score_list, scores_with_pp, unique_scores, files>>

\* Listing::from_file("osu!.db") returns Err: main returns it
ReadListingErr ==
    /\ pc = "read_listing"
    /\ pc' = "exit"
    /\ result' = "Err(osu!.db)"
    /\ UNCHANGED <<score_list, listing, scores_with_pp, unique_scores, files>>

ProcessScores ==
    /\ pc = "process"
    /\ scores_with_pp' = process_scores(score_list, listing)
    /\ pc' = "dedup"
    /\ UNCHANGED <<result, score_list, listing, unique_scores, files>>

RemoveDuplicates ==
    /\ pc = "dedup"
    /\ \E values \in remove_duplicates(scores_with_pp) : unique_scores' = values
    /\ pc' = "export"
    /\ UNCHANGED <<result, score_list, listing, scores_with_pp, files>>

\* export_tops runs to its end
ExportTopsOk ==
    /\ pc = "export"
    /\ unique_scores' = SortByPp(unique_scores)
    /\ files' = Append(files, ReportLines(unique_scores'))
    /\ pc' = "exit"
    /\ result' = "Ok"
    /\ UNCHANGED <<score_list, listing, scores_with_pp>>

\* Faulty variant of ExportTopsCreateErr: the error of File::create is swallowed.
ExportTopsCreateErrIgnored ==
    /\ pc = "export"
    /\ unique_scores' = SortByPp(unique_scores)
    /\ pc' = "exit"
    /\ result' = "Ok"
    /\ UNCHANGED <<score_list, listing, scores_with_pp, files>>

\* File::create fails: export_tops returns the error after the sort
ExportTopsCreateErr ==
    /\ pc = "export"
    /\ unique_scores' = SortByPp(unique_scores)
    /\ pc' = "exit"
    /\ result' = "Err(create)"
    /\ UNCHANGED <<score_list, listing, scores_with_pp, files>>

\* a writeln! fails after k lines were written: export_tops returns the error
ExportTopsWriteErr ==
    /\ pc = "export"
    /\ unique_scores' = SortByPp(unique_scores)
    /\ LET lines == ReportLines(unique_scores')
       IN  \E k \in 0..(Len(lines) - 1) :
               files' = Append(files, SubSeq(lines, 1, k))
    /\ pc' = "exit"
    /\ result' = "Err(write)"
    /\ UNCHANGED <<score_list, listing, scores_with_pp>>

Next ==
    \/ ReadScoresOk
    \/ ReadScoresErr
    \/ ReadListingOk
    \/ ReadListingErr
    \/ ProcessScores
    \/ RemoveDuplicates
    \/ ExportTopsOk
    \/ ExportTopsCreateErr
    \/ ExportTopsWriteErr

Spec == Init /\ [][Next]_vars

(***************************************************************************)
(* remove_duplicates on its own: any input, then the call.                 *)
(***************************************************************************)
InitDedup ==
    /\ pc = "dedup"
    /\ result = "running"
    /\ score_list = << >>
    /\ listing = << >>
    /\ scores_with_pp \in DedupInputs
    /\ unique_scores = << >>
    /\ files = << >>

NextDedup == RemoveDuplicates

SpecDedup == InitDedup /\ [][NextDedup]_vars

(***************************************************************************)
(* export_tops on its own: any slice of unique entries, then the call.     *)
(***************************************************************************)
InitExport ==
    /\ pc = "export"
    /\ result = "running"
    /\ score_list = << >>
    /\ listing = << >>
    /\ scores_with_pp = << >>
    /\ \/ \E k \in 0..MaxUnique : \E c \in [1..k -> Choices] :
              unique_scores = SmallUnique(c)
       \/ unique_scores \in ManyUnique
    /\ files = << >>

NextExport ==
    \/ ExportTopsOk
    \/ ExportTopsCreateErr
    \/ ExportTopsWriteErr

SpecExport == InitExport /\ [][NextExport]_vars

(***************************************************************************)
(* Properties.                                                             *)
(***************************************************************************)
Range(seq) == {seq[i] : i \in DOMAIN seq}

Occurrences(seq, x) == Cardinality({i \in DOMAIN seq : seq[i] = x})

\* the group a ScoredEntry is deduplicated in: its record's hash, the
\* sentinel "unknown" for a record without one
Group(e) ==
    IF e.score.beatmap_hash = None THEN Unknown ELSE e.score.beatmap_hash[1]

\* every ordering of a sequence
Orderings(seq) ==
    LET n == Len(seq)
    IN  { [i \in 1..n |-> seq[o[i]]] :
            o \in {f \in [1..n -> 1..n] : \A i, j \in 1..n : i # j => f[i] # f[j]} }

\* the record's hash is listed, and the first listing entry with that hash
\* is not ranked and has a readable content file
Eligible(r) ==
    \E i \in DOMAIN listing :
        /\ listing[i].hash = r.beatmap_hash
        /\ \A j \in 1..(i - 1) : listing[j].hash # r.beatmap_hash
        /\ listing[i].status # "Ranked"
        /\ listing[i].file # 0

\* the first listing entry with the record's hash is ranked
FirstMatchRanked(r) ==
    \E i \in DOMAIN listing :
        /\ listing[i].hash = r.beatmap_hash
        /\ \A j \in 1..(i - 1) : listing[j].hash # r.beatmap_hash
        /\ listing[i].status = "Ranked"

Unmatched(r) == \A b \in Range(listing) : b.hash # r.beatmap_hash

Processed == pc \in {"dedup", "export", "exit"}

Entries == Range(scores_with_pp) \cup Range(unique_scores)

Finished == pc = "exit" /\ result = "Ok"

\* the number of entries the report lists
Listed == IF Len(unique_scores) < 100 THEN Len(unique_scores) ELSE 100

\* the line of the report that carries the rank and names of the k-th listed
\* entry, and the line that carries its value
NameLine(k) == files[1][4 + 2 * k - 1]
ValueLine(k) == files[1][4 + 2 * k]

\* C1: after remove_duplicates the output has at most one entry per group
\* (hash, or the sentinel for hash-less records), every output entry is an
\* input entry, every group of the input is present in the output, and the
\* retained entry's value is >= the value of every input entry of its group.
C1_DedupKeepsBest ==
    pc = "export" =>
        /\ \A i, j \in DOMAIN unique_scores :
               Group(unique_scores[i]) = Group(unique_scores[j]) => i = j
        /\ \A i, j \in DOMAIN unique_scores :
               unique_scores[i].score.beatmap_hash = unique_scores[j].score.beatmap_hash
                   => i = j
        /\ Range(unique_scores) \subseteq Range(scores_with_pp)
        /\ \A k \in DOMAIN scores_with_pp :
               \E i \in DOMAIN unique_scores :
                   /\ Group(unique_scores[i]) = Group(scores_with_pp[k])
                   /\ unique_scores[i].attributes.pp >= scores_with_pp[k].attributes.pp

\* values 150 then 220 on one hash left a single entry of value 220
C1_Witness ==
    /\ pc = "export"
    /\ Len(scores_with_pp) = 2
    /\ scores_with_pp[1].score.beatmap_hash = Some(1)
    /\ scores_with_pp[2].score.beatmap_hash = Some(1)
    /\ scores_with_pp[1].attributes.pp = 15000
    /\ scores_with_pp[2].attributes.pp = 22000
    /\ Len(unique_scores) = 1
    /\ unique_scores[1].attributes.pp = 22000

\* C2: the report of a finished run is the report of every run on the same
\* inputs, whatever order the deduplication map is iterated in.
C2_SameReportAnyOrder ==
    Finished =>
        \A values \in remove_duplicates(process_scores(score_list, listing)) :
            ReportLines(SortByPp(values)) = files[1]

\* C3: no emitted, deduplicated or reported entry has a value >= 2000, and a
\* record is emitted (once per occurrence) exactly when it is matched, not
\* ranked, readable and its value is below 2000; one of value exactly 2000 is
\* not.
C3_OutlierGuard ==
    /\ \A e \in Entries : e.attributes.pp < 200000
    /\ \A f \in Range(files) : \A l \in Range(f) : l.kind = "pp" => l.pp < 200000
    /\ Processed =>
           \A r \in Range(score_list) :
               Cardinality({k \in DOMAIN scores_with_pp : scores_with_pp[k].score = r})
                   = IF Eligible(r) /\ r.counts < 200000
                     THEN Occurrences(score_list, r)
                     ELSE 0

\* a record of value 1999.99 is reported, one of value 2000 on the same
\* beatmap is not
C3_Witness ==
    /\ Finished
    /\ Len(score_list) = 2
    /\ score_list[1].counts = 200000
    /\ score_list[2].counts = 199999
    /\ Eligible(score_list[1])
    /\ Eligible(score_list[2])
    /\ Len(scores_with_pp) = 1
    /\ scores_with_pp[1].score = score_list[2]
    /\ Len(files[1]) = 6
    /\ ValueLine(1).pp = 199999

\* C4: every entry pairs a record of the store with a listing entry of the
\* same hash; a record whose hash no listing entry has is in no entry, and
\* the eligible records after it are still emitted; each listed line of the
\* report is the line of a unique entry.
C4_UnmatchedDropped ==
    /\ \A e \in Entries :
           /\ e.score.beatmap_hash = e.map.hash
           /\ e.map \in Range(listing)
           /\ e.score \in Range(score_list)
    /\ \A r \in Range(score_list) :
           Unmatched(r) => \A e \in Entries : e.score # r
    /\ Processed =>
           \A i, j \in DOMAIN score_list :
               (i < j /\ Unmatched(score_list[i]) /\ Eligible(score_list[j])
                      /\ score_list[j].counts < 200000)
                   => \E e \in Range(scores_with_pp) : e.score = score_list[j]
    /\ \A f \in Range(files) : \A l \in Range(f) :
           l.kind = "entry" =>
               /\ l.rank \in DOMAIN unique_scores
               /\ l.title = TitleDisplay(unique_scores[l.rank].map.title)
               /\ ~Unmatched(unique_scores[l.rank].score)

\* an unmatched record was dropped and the record after it was reported
C4_Witness ==
    /\ Finished
    /\ Len(score_list) = 2
    /\ Unmatched(score_list[1])
    /\ Len(scores_with_pp) = 1
    /\ scores_with_pp[1].score = score_list[2]
    /\ Len(files[1]) = 6

\* C5: no entry refers to a ranked beatmap, and the beatmap of an entry is
\* the first listing entry with the record's hash; a record whose first
\* match is ranked is in no entry, and a record whose first match has any
\* other status (and is readable, below the outlier ceiling) is emitted.
C5_RankedSkipped ==
    /\ \A e \in Entries :
           /\ e.map.status # "Ranked"
           /\ \E i \in DOMAIN listing :
                  /\ listing[i] = e.map
                  /\ \A j \in 1..(i - 1) : listing[j].hash # e.score.beatmap_hash
    /\ \A r \in Range(score_list) :
           FirstMatchRanked(r) => \A e \in Entries : e.score # r
    /\ Processed =>
           \A r \in Range(score_list) :
               (~Unmatched(r) /\ ~FirstMatchRanked(r) /\ Eligible(r) /\ r.counts < 200000)
                   => \E e \in Range(scores_with_pp) : e.score = r
    /\ \A f \in Range(files) : \A l \in Range(f) :
           l.kind = "entry" =>
               /\ l.rank \in DOMAIN unique_scores
               /\ unique_scores[l.rank].map.status # "Ranked"

\* a record whose beatmap is ranked was skipped, and the record after it, on
\* a loved beatmap, was reported
C5_Witness ==
    /\ Finished
    /\ Len(score_list) = 2
    /\ FirstMatchRanked(score_list[1])
    /\ score_list[1].counts < 200000
    /\ Len(scores_with_pp) = 1
    /\ scores_with_pp[1].score = score_list[2]
    /\ scores_with_pp[1].map.status = "Loved"
    /\ \A e \in Entries : e.score # score_list[1]
    /\ Len(files[1]) = 6

RECURSIVE RankSum(_, _)
\* the sum over the 0-based ranks i < n of value(i) * 0.95^i
RankSum(scores, n) ==
    IF n = 0 THEN 0
    ELSE RankSum(scores, n - 1)
         + (scores[n].attributes.pp * Powi(n - 1)) \div WeightUnit

\* C6: the weighted total of the report is the sum over all unique entries,
\* in descending order of value, of value(i) * 0.95^i with i the 0-based
\* rank; values 300, 200, 100 give 580.25; the grand total is the weighted
\* total plus the bonus total.
C6_WeightedTotal ==
    Finished =>
        /\ \A i \in 1..(Len(unique_scores) - 1) :
               unique_scores[i].attributes.pp >= unique_scores[i + 1].attributes.pp
        /\ files[1][2].kind = "Total pp (without bonus pp)"
        /\ files[1][2].value = RankSum(unique_scores, Len(unique_scores))
        /\ [i \in DOMAIN unique_scores |-> unique_scores[i].attributes.pp]
               = <<30000, 20000, 10000>>
               => files[1][2].value = 58025
        /\ files[1][1].kind = "Total pp"
        /\ files[1][3].kind = "Bonus pp"
        /\ files[1][1].value = files[1][2].value + files[1][3].value

\* more than 100 unique entries, and the ones after the 100th add to the total
C6_Witness ==
    /\ Finished
    /\ Len(unique_scores) > 100
    /\ files[1][2].value > RankSum(unique_scores, 100)

\* C7: the special statistic of the report is the number of unique entries,
\* listed or not, whose star rating r has 9.0 <= r < 10.0 and whose record
\* has the full-combo flag.
C7_NineStarPfcCount ==
    Finished =>
        /\ files[1][4].kind = "9* PFCs"
        /\ files[1][4].value =
               Cardinality({i \in DOMAIN unique_scores :
                   /\ unique_scores[i].attributes.stars >= 900
                   /\ unique_scores[i].attributes.stars < 1000
                   /\ unique_scores[i].score.perfect_combo = TRUE})

\* the 101st entry counts, and entries of rating 10.0 with the flag, of
\* rating 9.0 without it, and of a rating below 9.0 with it are there and
\* do not
C7_Witness ==
    /\ Finished
    /\ Len(unique_scores) > 100
    /\ unique_scores[101].attributes.stars = 900
    /\ unique_scores[101].score.perfect_combo
    /\ \E i \in DOMAIN unique_scores :
           unique_scores[i].attributes.stars = 1000 /\ unique_scores[i].score.perfect_combo
    /\ \E i \in DOMAIN unique_scores :
           unique_scores[i].attributes.stars = 900 /\ ~unique_scores[i].score.perfect_combo
    /\ \E i \in DOMAIN unique_scores :
           unique_scores[i].attributes.stars < 900 /\ unique_scores[i].score.perfect_combo
    /\ files[1][4].value =
           1 + Cardinality({i \in 1..100 :
                   /\ unique_scores[i].attributes.stars >= 900
                   /\ unique_scores[i].attributes.stars < 1000
                   /\ unique_scores[i].score.perfect_combo})

\* the original claim C8: a finished run either failed to load a database,
\* and then processed nothing and created no file, or succeeded with one file.
C8_OnlyLoadErrorsFail ==
    pc = "exit" =>
        \/ /\ result \in {"Err(scores.db)", "Err(osu!.db)"}
           /\ files = << >>
           /\ scores_with_pp = << >>
           /\ unique_scores = << >>
        \/ /\ result = "Ok"
           /\ Len(files) = 1

\* C8 (amended): main returns only at its end; a load error ends the run
\* with nothing processed and no file; otherwise the run ends in success
\* with exactly one complete report, however many records were skipped,
\* unless creating the report fails (error, no file) or writing a line of it
\* fails (error, one truncated file).
C8_Outcomes ==
    /\ pc # "exit" => result = "running" /\ files = << >>
    /\ pc = "exit" =>
        \/ /\ result \in {"Err(scores.db)", "Err(osu!.db)"}
           /\ files = << >>
           /\ scores_with_pp = << >>
           /\ unique_scores = << >>
        \/ /\ result = "Ok"
           /\ Len(files) = 1
           /\ Len(files[1]) = 4 + 2 * Listed
        \/ /\ result = "Err(create)"
           /\ files = << >>
        \/ /\ result = "Err(write)"
           /\ Len(files) = 1
           /\ Len(files[1]) < 4 + 2 * Listed

\* both loads succeeded, every record was skipped, each for another reason,
\* and the run ended in success with one report
C8_Witness ==
    /\ Finished
    /\ Len(files) = 1
    /\ Len(score_list) = 2
    /\ Unmatched(score_list[1])
    /\ FirstMatchRanked(score_list[2])
    /\ scores_with_pp = << >>

\* the original claim C9: whatever the order of the input, the same entries
\* are retained.
C9_SameEntryAnyOrder ==
    pc = "export" =>
        \A input \in Orderings(scores_with_pp) :
            \A values \in remove_duplicates(input) :
                Range(values) = Range(unique_scores)

\* C9 (amended): whatever the order of the input, the value retained for
\* each group is the same; the retained entry is the earliest input entry
\* with the maximum value of its group, so the retained entries are the same
\* when the entries of a group that share a value are identical.
C9_SameValueAnyOrder ==
    pc = "export" =>
        /\ \A e \in Range(unique_scores) :
               \E k \in DOMAIN scores_with_pp :
                   /\ scores_with_pp[k] = e
                   /\ \A j \in DOMAIN scores_with_pp :
                          Group(scores_with_pp[j]) = Group(e) =>
                              /\ scores_with_pp[j].attributes.pp <= e.attributes.pp
                              /\ j < k => scores_with_pp[j].attributes.pp < e.attributes.pp
        /\ \A input \in Orderings(scores_with_pp) :
               \A values \in remove_duplicates(input) :
                   /\ {<<Group(e), e.attributes.pp>> : e \in Range(values)}
                          = {<<Group(e), e.attributes.pp>> : e \in Range(unique_scores)}
                   /\ (\A a, b \in Range(scores_with_pp) :
                           (Group(a) = Group(b) /\ a.attributes.pp = b.attributes.pp)
                               => a = b)
                          => Range(values) = Range(unique_scores)

\* two entries of one group have the same value and differ in the
\* full-combo flag; the first one was retained
C9_Witness ==
    /\ pc = "export"
    /\ Len(scores_with_pp) = 2
    /\ Group(scores_with_pp[1]) = Group(scores_with_pp[2])
    /\ scores_with_pp[1].attributes.pp = scores_with_pp[2].attributes.pp
    /\ scores_with_pp[1].score.perfect_combo # scores_with_pp[2].score.perfect_combo
    /\ unique_scores = <<scores_with_pp[1]>>

\* what a successful export_tops leaves: the slice in descending order of
\* value, and in the report the first min(100, N) entries of it, numbered
\* from 1, each with its names and value, the values descending, no entry
\* left out having a greater value than a listed one
TopSliceListed ==
    /\ \A i \in 1..(Len(unique_scores) - 1) :
           unique_scores[i].attributes.pp >= unique_scores[i + 1].attributes.pp
    /\ Len(files[1]) = 4 + 2 * Listed
    /\ \A k \in 1..Listed :
           /\ NameLine(k).kind = "entry"
           /\ NameLine(k).rank = k
           /\ NameLine(k).title = TitleDisplay(unique_scores[k].map.title)
           /\ ValueLine(k).kind = "pp"
           /\ ValueLine(k).pp = unique_scores[k].attributes.pp
           /\ ValueLine(k).mods = ModDisplay(unique_scores[k].score.mods)
    /\ \A k \in 1..(Listed - 1) : ValueLine(k).pp >= ValueLine(k + 1).pp
    /\ \A k \in 1..Listed : \A j \in (Listed + 1)..Len(unique_scores) :
           unique_scores[j].attributes.pp <= ValueLine(k).pp

\* C10: a successful export_tops reorders the unique entries (none added,
\* none lost) into descending order of value and lists the first
\* min(100, N) of them, numbered 1..min(100, N).
C10_TopSlice ==
    [][(pc = "export" /\ result' = "Ok") =>
          /\ TopSliceListed'
          /\ \A e \in Range(unique_scores) \cup Range(unique_scores') :
                 Occurrences(unique_scores', e) = Occurrences(unique_scores, e)]_vars

\* 101 unique entries, 100 of them listed
C10_Witness ==
    /\ Finished
    /\ Len(unique_scores) = 101
    /\ Len(files[1]) = 204
    /\ NameLine(100).rank = 100
    /\ unique_scores[101].attributes.pp < ValueLine(1).pp

====
